---- MODULE Spec2Model ----
(***************************************************************************)
(* git-owner (src/git_owner/__init__.py): estimate the owner of a file     *)
(* from `git log` and `git blame`.                                         *)
(*                                                                         *)
(* Author identifiers are opaque strings.  A Python dict is modelled as a  *)
(* sequence of <<key, value>> pairs with distinct keys, in insertion       *)
(* order (dicts iterate in insertion order, and sort_shares depends on     *)
(* it).  A share is a Python float; it is modelled as the exact rational   *)
(* <<numerator, denominator>> in lowest terms, so float rounding error is  *)
(* outside the model.  The -n/--names flag only selects which identifier   *)
(* git prints and is not modelled.                                         *)
(***************************************************************************)
EXTENDS Integers, Sequences, FiniteSets, TLC

\* Longest list of author identifiers a git query returns in the model.
MaxLen == 3
\* Largest number of files on the command line in the model.
MaxFiles == 2
\* Longest author list drawn as the input of contributor_shares alone.
PureLen == 3
\* Most entries of a share mapping drawn as the input of a pure function.
MaxKeys == 3
\* Share mappings drawn as inputs have the values k/d, 1 <= k <= d <= MaxDen.
MaxDen == 2

Authors == {"a", "b"}
PureAuthors == {"a", "b", "c"}

\* args.placeholder when -p is absent (Python None), and one OWNER value.
NoPlaceholder == "None"
Placeholders == {NoPlaceholder, "nobody"}

(***************************************************************************)
(* Floats as exact rationals.                                              *)
(***************************************************************************)
RECURSIVE GCD(_, _)
GCD(m, n) == IF n = 0 THEN m ELSE GCD(n, m % n)

Frac(n, d) == LET g == GCD(n, d) IN <<n \div g, d \div g>>
Zero == Frac(0, 1)
One == Frac(1, 1)
\* count / total
FracDiv(count, total) == Frac(count, total)
\* fraction / 2
FracHalf(f) == Frac(f[1], 2 * f[2])
FracAdd(f, g) == Frac(f[1] * g[2] + g[1] * f[2], f[2] * g[2])
FracGE(f, g) == f[1] * g[2] >= g[1] * f[2]
FracGT(f, g) == f[1] * g[2] > g[1] * f[2]

(***************************************************************************)
(* dict operations on sequences of <<key, value>> pairs.                   *)
(***************************************************************************)
Keys(d) == {d[i][1] : i \in 1..Len(d)}
HasKey(d, k) == \E i \in 1..Len(d) : d[i][1] = k
\* d.get(k, default)
DictGet(d, k, default) ==
    IF HasKey(d, k) THEN d[CHOOSE i \in 1..Len(d) : d[i][1] = k][2] ELSE default
\* d[k] = v: an existing key keeps its position, a new key goes last.
DictSet(d, k, v) ==
    IF HasKey(d, k)
    THEN [i \in 1..Len(d) |-> IF d[i][1] = k THEN <<k, v>> ELSE d[i]]
    ELSE Append(d, <<k, v>>)

RECURSIVE SumValues(_)
SumValues(d) == IF d = <<>> THEN Zero ELSE FracAdd(d[1][2], SumValues(Tail(d)))

\* Number of occurrences of x in the list s.
RECURSIVE Occurrences(_, _)
Occurrences(s, x) ==
    IF s = <<>> THEN 0
    ELSE (IF Head(s) = x THEN 1 ELSE 0) + Occurrences(Tail(s), x)

(***************************************************************************)
(* sorted(items, key=lambda item: item[1], reverse=True): Python's sort is *)
(* stable, and reverse=True keeps the original order of items with equal   *)
(* keys.  That fixes the result: an item comes behind every item with a    *)
(* greater key and behind every earlier item with an equal key.            *)
(***************************************************************************)
\* greater[j][i]: the key of item j is greater than the key of item i.
SortedDesc(items, greater) ==
    LET n == Len(items)
        Before(j, i) == greater[j][i] \/ (~greater[i][j] /\ j < i)
        Place(i) == 1 + Cardinality({j \in 1..n : Before(j, i)})
    IN  [p \in 1..n |-> items[CHOOSE i \in 1..n : Place(i) = p]]

\* A mutant of the sort: items with equal keys come out in reverse order.
SortedDescReversedTies(items, greater) ==
    LET n == Len(items)
        Before(j, i) == greater[j][i] \/ (~greater[i][j] /\ j > i)
        Place(i) == 1 + Cardinality({j \in 1..n : Before(j, i)})
    IN  [p \in 1..n |-> items[CHOOSE i \in 1..n : Place(i) = p]]

(***************************************************************************)
(* contributor_shares                                                      *)
(***************************************************************************)
\* Counter(authors): counts keyed in order of first occurrence.
RECURSIVE CounterFrom(_, _)
CounterFrom(counter, authors) ==
    IF authors = <<>> THEN counter
    ELSE CounterFrom(DictSet(counter, Head(authors), DictGet(counter, Head(authors), 0) + 1),
                     Tail(authors))

Counter(authors) == CounterFrom(<<>>, authors)

RECURSIVE CounterTotal(_)
CounterTotal(counter) ==
    IF counter = <<>> THEN 0 ELSE counter[1][2] + CounterTotal(Tail(counter))

\* counter.most_common(): by count, descending, stable.
MostCommon(counter) ==
    SortedDesc(counter, [j \in 1..Len(counter) |->
                           [i \in 1..Len(counter) |-> counter[j][2] > counter[i][2]]])

\* A mutant: each count is divided by the number of distinct authors.
contributor_shares_by_keys(authors) ==
    LET counter == Counter(authors)
        common == MostCommon(counter)
    IN  [i \in 1..Len(common) |-> <<common[i][1], FracDiv(common[i][2], Len(counter))>>]

\* The loop body (the division) runs once per distinct author, so an empty
\* list divides nothing and yields the empty mapping.
contributor_shares(authors) ==
    LET counter == Counter(authors)
        total == CounterTotal(counter)
        common == MostCommon(counter)
    IN  [i \in 1..Len(common) |-> <<common[i][1], FracDiv(common[i][2], total)>>]

(***************************************************************************)
(* combine_shares                                                          *)
(***************************************************************************)
RECURSIVE HalveInto(_, _)
HalveInto(combined, log) ==
    IF log = <<>> THEN combined
    ELSE HalveInto(DictSet(combined, log[1][1], FracHalf(log[1][2])), Tail(log))

RECURSIVE AddHalves(_, _)
AddHalves(combined, blame) ==
    IF blame = <<>> THEN combined
    ELSE AddHalves(DictSet(combined, blame[1][1],
                           FracAdd(DictGet(combined, blame[1][1], Zero),
                                   FracHalf(blame[1][2]))),
                   Tail(blame))

\* A mutant: the second loop overwrites the half taken from the log.
RECURSIVE OverwriteHalves(_, _)
OverwriteHalves(combined, blame) ==
    IF blame = <<>> THEN combined
    ELSE OverwriteHalves(DictSet(combined, blame[1][1], FracHalf(blame[1][2])),
                         Tail(blame))

combine_shares_overwrite(log, blame) == OverwriteHalves(HalveInto(<<>>, log), blame)

\* A mutant: the log's half is not halved.
combine_shares_unweighted(log, blame) == AddHalves(log, blame)

combine_shares(log, blame) == AddHalves(HalveInto(<<>>, log), blame)

(***************************************************************************)
(* sort_shares, likely_owner, report_shares                                *)
(***************************************************************************)
\* A mutant: entries of equal share come out in reverse insertion order.
sort_shares_unstable(shares) ==
    SortedDescReversedTies(shares, [j \in 1..Len(shares) |->
                                      [i \in 1..Len(shares) |->
                                         FracGT(shares[j][2], shares[i][2])]])

\* key=lambda item: item[1], compared as floats
sort_shares(shares) ==
    SortedDesc(shares, [j \in 1..Len(shares) |->
                          [i \in 1..Len(shares) |-> FracGT(shares[j][2], shares[i][2])]])

\* A mutant: the last entry instead of the first.
likely_owner_last(shares) == shares[Len(shares)][1]

\* shares[0][0]; the caller has the IndexError of an empty list.
likely_owner(shares) == shares[1][1]

\* "{:.1%}": the percentage in tenths of a percent, round-half-even.
PercentTenths(f) ==
    LET q == (1000 * f[1]) \div f[2]
        r == (1000 * f[1]) % f[2]
    IN  IF 2 * r > f[2] \/ (2 * r = f[2] /\ q % 2 = 1) THEN q + 1 ELSE q

NoHeader == "None"
HeaderLine(header) == [kind |-> "header", rank |-> 0, text |-> header, tenths |-> 0]
RankLine(rank, author, fraction) ==
    [kind |-> "rank", rank |-> rank, text |-> author, tenths |-> PercentTenths(fraction)]
OwnerLine(author) == [kind |-> "owner", rank |-> 0, text |-> author, tenths |-> 0]

report_shares(shares, header) ==
    (IF header # NoHeader THEN <<HeaderLine(header)>> ELSE <<>>)
    \o [i \in 1..Len(shares) |-> RankLine(i, shares[i][1], shares[i][2])]

(***************************************************************************)
(* The program state.                                                      *)
(***************************************************************************)
VARIABLES
    args,         \* the parsed command line (cli)
    idx,          \* position of `file` in args.files in the main loop; 0 before it
    pc,           \* where the main thread is
    buffer,       \* estimate_file's buffer: the dict the extractors write into
    t_log,        \* the activation of log_contributors (thread t1, or a direct call)
    t_blame,      \* the activation of blame_contributors (thread t2, or a direct call)
    shares,       \* estimate_file's sorted_shares, the main loop's `shares`
    printed,      \* the lines written to stdout for the current file
    n_reports,    \* how many calls of print_report have returned
    exit_status,  \* the process's exit status; -1 while it runs
    raised,       \* the exception that ended the process, or "none"
    pure          \* the input and output of a pure function called on its own

vars == <<args, idx, pc, buffer, t_log, t_blame, shares, printed, n_reports,
          exit_status, raised, pure>>

RECURSIVE ListsUpTo(_, _)
ListsUpTo(S, n) ==
    IF n = 0 THEN {<<>>}
    ELSE LET shorter == ListsUpTo(S, n - 1)
         IN  shorter \cup {Append(l, x) : l \in shorter, x \in S}

\* What a successful git query can yield: zero or more author identifiers.
GitLists == ListsUpTo(Authors, MaxLen)

\* The paths given on the command line, in order.
FileNames == <<"f1", "f2", "f3", "f4">>
FileName(i) == FileNames[i]
Idle == [pc |-> "idle", file |-> "", ok |-> FALSE, val |-> <<>>]
Running(file) == [pc |-> "run", file |-> file, ok |-> FALSE, val |-> <<>>]
NoPure == [op |-> "none", x |-> <<>>, y |-> <<>>, out |-> <<>>, done |-> FALSE]

\* nargs='+' gives at least one file; -l and -b are mutually exclusive.
ArgsSet ==
    {[files |-> [i \in 1..n |-> FileName(i)], most_likely |-> m, placeholder |-> p,
      only_log |-> l, only_blame |-> b] :
        n \in 1..MaxFiles, m \in BOOLEAN, p \in Placeholders,
        l \in BOOLEAN, b \in {FALSE}}
    \cup
    {[files |-> [i \in 1..n |-> FileName(i)], most_likely |-> m, placeholder |-> p,
      only_log |-> FALSE, only_blame |-> TRUE] :
        n \in 1..MaxFiles, m \in BOOLEAN, p \in Placeholders}

Init ==
    /\ args \in ArgsSet
    /\ idx = 0
    /\ pc = "loop"
    /\ buffer = <<>>
    /\ t_log = Idle
    /\ t_blame = Idle
    /\ shares = <<>>
    /\ printed = <<>>
    /\ n_reports = 0
    /\ exit_status = -1
    /\ raised = "none"
    /\ pure = NoPure

file == args.files[idx]

(***************************************************************************)
(* The extractors.                                                         *)
(***************************************************************************)
\* subprocess.run(["git", "log", ...], check=True) raises CalledProcessError:
\* the error is logged and the function returns without writing its slot.
LogFail ==
    /\ t_log.pc = "run"
    /\ t_log' = [t_log EXCEPT !.pc = "done", !.ok = FALSE]
    /\ UNCHANGED <<args, idx, pc, buffer, t_blame, shares, printed, n_reports,
                   exit_status, raised, pure>>

\* git log exits 0: contributors = log.stdout.decode().splitlines()
LogRun ==
    /\ t_log.pc = "run"
    /\ \E contributors \in GitLists :
          t_log' = [t_log EXCEPT !.pc = "store", !.ok = TRUE, !.val = contributors]
    /\ UNCHANGED <<args, idx, pc, buffer, t_blame, shares, printed, n_reports,
                   exit_status, raised, pure>>

\* output["log"] = contributors
LogStore ==
    /\ t_log.pc = "store"
    /\ buffer' = DictSet(buffer, "log", t_log.val)
    /\ t_log' = [t_log EXCEPT !.pc = "done"]
    /\ UNCHANGED <<args, idx, pc, t_blame, shares, printed, n_reports,
                   exit_status, raised, pure>>

\* git blame --line-porcelain prints, for every line of the file, a block of
\* header lines, among them its "author-mail <...>" line, and the line itself.
RECURSIVE LinePorcelain(_)
LinePorcelain(authors) ==
    IF authors = <<>> THEN <<>>
    ELSE << <<"commit", "">>, <<"author-mail", Head(authors)>>, <<"content", "">> >>
         \o LinePorcelain(Tail(authors))

\* The loop over blame_text: the capture of every line the regex matches.
RECURSIVE BlameAuthors(_)
BlameAuthors(blame_text) ==
    IF blame_text = <<>> THEN <<>>
    ELSE (IF Head(blame_text)[1] = "author-mail" THEN <<Head(blame_text)[2]>> ELSE <<>>)
         \o BlameAuthors(Tail(blame_text))

BlameFail ==
    /\ t_blame.pc = "run"
    /\ t_blame' = [t_blame EXCEPT !.pc = "done", !.ok = FALSE]
    /\ UNCHANGED <<args, idx, pc, buffer, t_log, shares, printed, n_reports,
                   exit_status, raised, pure>>

BlameRun ==
    /\ t_blame.pc = "run"
    /\ \E authors \in GitLists :
          t_blame' = [t_blame EXCEPT !.pc = "store", !.ok = TRUE,
                                     !.val = BlameAuthors(LinePorcelain(authors))]
    /\ UNCHANGED <<args, idx, pc, buffer, t_log, shares, printed, n_reports,
                   exit_status, raised, pure>>

\* output["blame"] = blame_contributors
BlameStore ==
    /\ t_blame.pc = "store"
    /\ buffer' = DictSet(buffer, "blame", t_blame.val)
    /\ t_blame' = [t_blame EXCEPT !.pc = "done"]
    /\ UNCHANGED <<args, idx, pc, t_log, shares, printed, n_reports,
                   exit_status, raised, pure>>

(***************************************************************************)
(* The main thread: the loop over args.files, estimate_file, print_report. *)
(***************************************************************************)
\* for file in args.files, and estimate_file's first line, buffer = {}.
LoopNext ==
    /\ pc = "loop"
    /\ idx < Len(args.files)
    /\ idx' = idx + 1
    /\ buffer' = <<>>
    /\ shares' = <<>>
    /\ printed' = <<>>
    /\ pc' = "estimate"
    /\ UNCHANGED <<args, t_log, t_blame, n_reports, exit_status, raised, pure>>

\* The loop is exhausted: the script ends, exit status 0.
LoopEnd ==
    /\ pc = "loop"
    /\ idx = Len(args.files)
    /\ pc' = "done"
    /\ exit_status' = 0
    /\ UNCHANGED <<args, idx, buffer, t_log, t_blame, shares, printed, n_reports,
                   raised, pure>>

\* sys.exit(1)
Exit1 ==
    /\ pc' = "done"
    /\ exit_status' = 1
    /\ raised' = "SystemExit"
    /\ UNCHANGED <<shares, printed, n_reports>>

\* if args.only_log: log_contributors(file, args.names, buffer)
CallLog ==
    /\ pc = "estimate"
    /\ args.only_log
    /\ t_log' = Running(file)
    /\ pc' = "in_log"
    /\ UNCHANGED <<args, idx, buffer, t_blame, shares, printed, n_reports,
                   exit_status, raised, pure>>

\* elif args.only_blame: blame_contributors(file, args.names, buffer)
CallBlame ==
    /\ pc = "estimate"
    /\ ~args.only_log /\ args.only_blame
    /\ t_blame' = Running(file)
    /\ pc' = "in_blame"
    /\ UNCHANGED <<args, idx, buffer, t_log, shares, printed, n_reports,
                   exit_status, raised, pure>>

\* else: t1 = Thread(target=log_contributors, ...); t1.start()
StartT1 ==
    /\ pc = "estimate"
    /\ ~args.only_log /\ ~args.only_blame
    /\ t_log' = Running(file)
    /\ pc' = "start_t2"
    /\ UNCHANGED <<args, idx, buffer, t_blame, shares, printed, n_reports,
                   exit_status, raised, pure>>

\* t2 = Thread(target=blame_contributors, ...); t2.start()
StartT2 ==
    /\ pc = "start_t2"
    /\ t_blame' = Running(file)
    /\ pc' = "join_t1"
    /\ UNCHANGED <<args, idx, buffer, t_log, shares, printed, n_reports,
                   exit_status, raised, pure>>

\* t1.join()
JoinT1 ==
    /\ pc = "join_t1"
    /\ t_log.pc = "done"
    /\ pc' = "join_t2"
    /\ UNCHANGED <<args, idx, buffer, t_log, t_blame, shares, printed, n_reports,
                   exit_status, raised, pure>>

\* t2.join()
JoinT2 ==
    /\ pc = "join_t2"
    /\ t_blame.pc = "done"
    /\ pc' = "read"
    /\ UNCHANGED <<args, idx, buffer, t_log, t_blame, shares, printed, n_reports,
                   exit_status, raised, pure>>

\* A mutant: only the log slot is looked up inside the try.
KeyErrorOnlyLog(buf, keys) == "log" \in keys /\ ~HasKey(buf, "log")

\* buffer[key] raises KeyError for one of the keys.
KeyError(buf, keys) == \E key \in keys : ~HasKey(buf, key)

\* A mutant: the slots are taken in the order the threads filled them.
SlotByPosition(buf, key) ==
    IF key = "log" THEN (IF Len(buf) >= 1 THEN buf[1][2] ELSE <<>>)
    ELSE (IF Len(buf) >= 2 THEN buf[2][2] ELSE <<>>)

\* buffer[key], where the key is present.
Slot(buf, key) == DictGet(buf, key, <<>>)

\* The only_log branch after the call: try buffer["log"], shares, sort.
EstimateLog ==
    /\ pc = "in_log"
    /\ t_log.pc = "done"
    /\ IF KeyError(buffer, {"log"})
       THEN Exit1
       ELSE /\ shares' = sort_shares(contributor_shares(Slot(buffer, "log")))
            /\ pc' = "report"
            /\ UNCHANGED <<printed, n_reports, exit_status, raised>>
    /\ UNCHANGED <<args, idx, buffer, t_log, t_blame, pure>>

\* The only_blame branch after the call.
EstimateBlame ==
    /\ pc = "in_blame"
    /\ t_blame.pc = "done"
    /\ IF KeyError(buffer, {"blame"})
       THEN Exit1
       ELSE /\ shares' = sort_shares(contributor_shares(Slot(buffer, "blame")))
            /\ pc' = "report"
            /\ UNCHANGED <<printed, n_reports, exit_status, raised>>
    /\ UNCHANGED <<args, idx, buffer, t_log, t_blame, pure>>

\* The combined branch after both joins.
EstimateCombined ==
    /\ pc = "read"
    /\ IF KeyError(buffer, {"log", "blame"})
       THEN Exit1
       ELSE /\ shares' = sort_shares(combine_shares(
                             contributor_shares(Slot(buffer, "log")),
                             contributor_shares(Slot(buffer, "blame"))))
            /\ pc' = "report"
            /\ UNCHANGED <<printed, n_reports, exit_status, raised>>
    /\ UNCHANGED <<args, idx, buffer, t_log, t_blame, pure>>

\* A mutant: a header whenever any file is given.
ReportHeaderAlways(files, f) == IF Len(files) >= 1 THEN f ELSE NoHeader

\* if len(args.files) > 1: header = file; else: header = None
ReportHeader(files, f) == IF Len(files) > 1 THEN f ELSE NoHeader

\* print_report(shares, file, args); likely_owner([]) raises IndexError, which
\* nothing catches: a traceback and exit status 1.
PrintReport ==
    /\ pc = "report"
    /\ IF args.most_likely
       THEN IF shares = <<>>
            THEN /\ pc' = "done"
                 /\ exit_status' = 1
                 /\ raised' = "IndexError"
                 /\ UNCHANGED <<printed, n_reports>>
            ELSE /\ printed' = <<OwnerLine(likely_owner(shares))>>
                 /\ n_reports' = n_reports + 1
                 /\ pc' = "loop"
                 /\ UNCHANGED <<exit_status, raised>>
       ELSE /\ printed' = report_shares(shares, ReportHeader(args.files, file))
            /\ n_reports' = n_reports + 1
            /\ pc' = "loop"
            /\ UNCHANGED <<exit_status, raised>>
    /\ UNCHANGED <<args, idx, buffer, t_log, t_blame, shares, pure>>

Next ==
    \/ LoopNext \/ LoopEnd
    \/ CallLog \/ CallBlame
    \/ StartT1 \/ StartT2 \/ JoinT1 \/ JoinT2
    \/ LogFail \/ LogRun \/ LogStore
    \/ BlameFail \/ BlameRun \/ BlameStore
    \/ EstimateLog \/ EstimateBlame \/ EstimateCombined
    \/ PrintReport

Spec == Init /\ [][Next]_vars

(***************************************************************************)
(* The pure functions on their own: an input is drawn, the function is     *)
(* applied to it.                                                          *)
(***************************************************************************)
PureLists == ListsUpTo(PureAuthors, PureLen)
PureValues ==
    {f \in {Frac(k, d) : k \in 1..MaxDen, d \in 1..MaxDen} : FracGE(One, f)}

RECURSIVE MapsUpTo(_)
MapsUpTo(n) ==
    IF n = 0 THEN {<<>>}
    ELSE LET shorter == MapsUpTo(n - 1)
         IN  shorter \cup {Append(m, <<a, v>>) :
                              m \in {k \in shorter : Len(k) = n - 1},
                              a \in PureAuthors, v \in PureValues}

DistinctKeys(d) == \A i, j \in 1..Len(d) : d[i][1] = d[j][1] => i = j
\* Share mappings: distinct authors, in any insertion order, values in (0, 1].
PureMaps == {m \in MapsUpTo(MaxKeys) : DistinctKeys(m)}

PureInit ==
    /\ args = [files |-> <<FileName(1)>>, most_likely |-> FALSE,
               placeholder |-> NoPlaceholder, only_log |-> FALSE, only_blame |-> FALSE]
    /\ idx = 0
    /\ pc = "pure"
    /\ buffer = <<>>
    /\ t_log = Idle
    /\ t_blame = Idle
    /\ shares = <<>>
    /\ printed = <<>>
    /\ n_reports = 0
    /\ exit_status = -1
    /\ raised = "none"
    /\ \/ \E authors \in PureLists :
             pure = [op |-> "shares", x |-> authors, y |-> <<>>, out |-> <<>>,
                     done |-> FALSE]
       \/ \E log \in PureMaps, blame \in PureMaps :
             pure = [op |-> "combine", x |-> log, y |-> blame, out |-> <<>>,
                     done |-> FALSE]
       \/ \E m \in PureMaps :
             pure = [op |-> "sort", x |-> m, y |-> <<>>, out |-> <<>>, done |-> FALSE]

PureShares ==
    /\ pure.op = "shares" /\ ~pure.done
    /\ pure' = [pure EXCEPT !.out = contributor_shares(pure.x), !.done = TRUE]
    /\ UNCHANGED <<args, idx, pc, buffer, t_log, t_blame, shares, printed, n_reports,
                   exit_status, raised>>

PureCombine ==
    /\ pure.op = "combine" /\ ~pure.done
    /\ pure' = [pure EXCEPT !.out = combine_shares(pure.x, pure.y), !.done = TRUE]
    /\ UNCHANGED <<args, idx, pc, buffer, t_log, t_blame, shares, printed, n_reports,
                   exit_status, raised>>

PureSort ==
    /\ pure.op = "sort" /\ ~pure.done
    /\ pure' = [pure EXCEPT !.out = sort_shares(pure.x), !.done = TRUE]
    /\ UNCHANGED <<args, idx, pc, buffer, t_log, t_blame, shares, printed, n_reports,
                   exit_status, raised>>

PureNext == PureShares \/ PureCombine \/ PureSort

SpecPure == PureInit /\ [][PureNext]_vars

(***************************************************************************)
(* Claims about the pure functions (checked under SpecPure).               *)
(***************************************************************************)
Elements(s) == {s[i] : i \in 1..Len(s)}
SharesDone == pure.op = "shares" /\ pure.done
CombineDone == pure.op = "combine" /\ pure.done
SortDone == pure.op = "sort" /\ pure.done

SharesKeysAndValues ==
    /\ DistinctKeys(pure.out)
    /\ Keys(pure.out) = Elements(pure.x)
    /\ \A i \in 1..Len(pure.out) :
          /\ pure.out[i][2] = Frac(Occurrences(pure.x, pure.out[i][1]), Len(pure.x))
          /\ FracGT(pure.out[i][2], Zero)
          /\ FracGE(One, pure.out[i][2])

\* C1 as stated: for any list of authors contributor_shares returns a mapping
\* whose keys are the distinct authors of the list, each with the value
\* occurrences / length, in (0, 1], and the values sum to 1.
C1_AsStated == SharesDone => (SharesKeysAndValues /\ SumValues(pure.out) = One)

\* C1 amended: keys, values and range as stated for every list; the values sum
\* to 1 for a non-empty list, and the empty list gives the empty mapping,
\* whose values sum to 0.
C1_Shares ==
    SharesDone =>
        /\ SharesKeysAndValues
        /\ pure.x # <<>> => SumValues(pure.out) = One
        /\ pure.x = <<>> => (pure.out = <<>> /\ SumValues(pure.out) = Zero)

\* A list with a repeated author and a second author has been turned into shares.
C1_Witness ==
    /\ SharesDone
    /\ Len(pure.x) = 3
    /\ Cardinality(Elements(pure.x)) = 2
    /\ Len(pure.out) = 2

\* C2: combine_shares returns a mapping over the union of the authors of log
\* and blame, each with the value log.get(a, 0)/2 + blame.get(a, 0)/2; when the
\* author sets are disjoint every value is half of the original value; when
\* each input sums to 1 the result sums to 1.
C2_Combine ==
    CombineDone =>
        LET log == pure.x
            blame == pure.y
            out == pure.out
        IN  /\ DistinctKeys(out)
            /\ Keys(out) = Keys(log) \cup Keys(blame)
            /\ \A a \in Keys(out) :
                  DictGet(out, a, Zero) =
                      FracAdd(FracHalf(DictGet(log, a, Zero)),
                              FracHalf(DictGet(blame, a, Zero)))
            /\ Keys(log) \cap Keys(blame) = {} =>
                  /\ \A a \in Keys(log) :
                        FracAdd(DictGet(out, a, Zero), DictGet(out, a, Zero))
                            = DictGet(log, a, Zero)
                  /\ \A a \in Keys(blame) :
                        FracAdd(DictGet(out, a, Zero), DictGet(out, a, Zero))
                            = DictGet(blame, a, Zero)
            /\ (SumValues(log) = One /\ SumValues(blame) = One) =>
                  SumValues(out) = One

\* Two mappings that share an author, each summing to 1, have been blended.
C2_Witness ==
    /\ CombineDone
    /\ Keys(pure.x) \cap Keys(pure.y) # {}
    /\ Keys(pure.x) # Keys(pure.y)
    /\ SumValues(pure.x) = One
    /\ SumValues(pure.y) = One

\* C3: as mappings from authors to values, combine_shares(X, Y) equals
\* combine_shares(Y, X), and combine_shares(X, X) equals X.
C3_CommutativeIdempotent ==
    CombineDone =>
        LET swapped == combine_shares(pure.y, pure.x)
            self == combine_shares(pure.x, pure.x)
        IN  /\ Keys(swapped) = Keys(pure.out)
            /\ \A a \in Keys(pure.out) :
                  DictGet(swapped, a, Zero) = DictGet(pure.out, a, Zero)
            /\ Keys(self) = Keys(pure.x)
            /\ \A a \in Keys(pure.x) :
                  DictGet(self, a, Zero) = DictGet(pure.x, a, Zero)

\* Two different mappings with a common author and different values blended.
C3_Witness ==
    /\ CombineDone
    /\ Len(pure.x) >= 2
    /\ \E a \in Keys(pure.x) \cap Keys(pure.y) :
          DictGet(pure.x, a, Zero) # DictGet(pure.y, a, Zero)
    /\ pure.out # combine_shares(pure.y, pure.x)

IndexOf(d, k) == CHOOSE i \in 1..Len(d) : d[i][1] = k

\* C4: sort_shares returns a permutation of the mapping's entries, descending
\* by share, and entries with equal share keep their insertion order; the
\* blend of log {a: 1} with blame {b: 1} ranks a before b.
C4_SortStableDescending ==
    /\ sort_shares(combine_shares(<< <<"a", One>> >>, << <<"b", One>> >>))
          = << <<"a", Frac(1, 2)>>, <<"b", Frac(1, 2)>> >>
    /\ SortDone =>
          LET in == pure.x
              out == pure.out
          IN  /\ Len(out) = Len(in)
              /\ Elements(out) = Elements(in)
              /\ \A i \in 1..(Len(out) - 1) : FracGE(out[i][2], out[i + 1][2])
              /\ \A i, j \in 1..Len(out) :
                    (i < j /\ out[i][2] = out[j][2]) =>
                        IndexOf(in, out[i][1]) < IndexOf(in, out[j][1])

\* A mapping that is not in order and holds a tie has been sorted.
C4_Witness ==
    /\ SortDone
    /\ Len(pure.x) = 3
    /\ pure.out # pure.x
    /\ \E i \in 1..2 : pure.out[i][2] = pure.out[i + 1][2]

(***************************************************************************)
(* Claims about the program (checked under Spec).                          *)
(***************************************************************************)
UsesLog == ~args.only_blame
UsesBlame == ~args.only_log
CombinedMode == ~args.only_log /\ ~args.only_blame
InFlight(t) == t.pc \in {"run", "store"}
\* estimate_file has returned or exited for the current file.
PastEstimate == idx >= 1 /\ pc \in {"report", "loop", "done"}
\* print_report has returned for the current file.
JustPrinted == idx >= 1 /\ pc = "loop"
\* A git query needed for the current file exited non-zero.
FailedSignal ==
    /\ idx >= 1
    /\ \/ (UsesLog /\ t_log.file = file /\ t_log.pc = "done" /\ ~t_log.ok)
       \/ (UsesBlame /\ t_blame.file = file /\ t_blame.pc = "done" /\ ~t_blame.ok)
\* A git query needed for the current file succeeded with no author at all.
EmptySignal ==
    /\ idx >= 1
    /\ \/ (UsesLog /\ t_log.file = file /\ t_log.pc = "done" /\ t_log.ok
                   /\ t_log.val = <<>>)
       \/ (UsesBlame /\ t_blame.file = file /\ t_blame.pc = "done" /\ t_blame.ok
                     /\ t_blame.val = <<>>)

\* C5: in every mode, the author printed in most-likely mode is the author of
\* the rank-1 line that the full report prints for the same sorted shares.
C5_MostLikelyIsRankOne ==
    (JustPrinted /\ args.most_likely) =>
        LET full == report_shares(shares, ReportHeader(args.files, file))
        IN  /\ Len(printed) = 1
            /\ printed[1].kind = "owner"
            /\ \E i \in 1..Len(full) :
                  /\ full[i].kind = "rank"
                  /\ full[i].rank = 1
                  /\ full[i].text = printed[1].text

\* Most-likely mode has printed the owner of a file whose blend ranks one
\* author above another.
C5_Witness ==
    /\ JustPrinted
    /\ args.most_likely
    /\ CombinedMode
    /\ Len(shares) >= 2
    /\ FracGT(shares[1][2], shares[2][2])

\* C6: a query that succeeds with zero authors is treated as a failure of that
\* signal: the file's analysis fails, with no ranked list, report or owner for
\* it, no blend from the other signal alone, and no out-of-range access.
C6_EmptyResultFails ==
    (EmptySignal /\ PastEstimate) =>
        /\ pc = "done"
        /\ raised = "SystemExit"
        /\ shares = <<>>
        /\ printed = <<>>

C8_PlaceholderShown ==
    (args.placeholder # NoPlaceholder /\ FailedSignal /\ PastEstimate) =>
        /\ exit_status # 1
        /\ raised = "none"
        /\ pc = "loop" => \E i \in 1..Len(printed) : printed[i].text = args.placeholder

HeaderCount(lines) == Cardinality({i \in 1..Len(lines) : lines[i].kind = "header"})

\* C9 as stated: with more than one file every file's output starts with a
\* header naming it, in every output mode; with one file there is no header.
C9_AsStated ==
    JustPrinted =>
        IF Len(args.files) > 1
        THEN Len(printed) >= 1 /\ printed[1] = HeaderLine(file)
        ELSE HeaderCount(printed) = 0

\* C9 amended: the full report of each file starts with a header naming the
\* file when more than one file is given; with exactly one file, and in
\* most-likely mode whatever the number of files, no header is printed.
C9_Header ==
    JustPrinted =>
        IF Len(args.files) > 1 /\ ~args.most_likely
        THEN /\ Len(printed) >= 1
             /\ printed[1] = HeaderLine(file)
             /\ HeaderCount(printed) = 1
        ELSE HeaderCount(printed) = 0

\* The full report of the second of two files has been printed, with authors.
C9_Witness ==
    /\ JustPrinted
    /\ ~args.most_likely
    /\ idx = 2
    /\ Len(printed) >= 3

\* The state part of C10.
C10_Inv ==
    \* the main thread reads the buffer only after both threads have ended
    /\ (CombinedMode /\ pc \in {"read", "report"}) =>
          (t_log.pc = "done" /\ t_blame.pc = "done")
    \* the ranked list depends on what the queries returned, not on the order
    \* in which the threads ran
    /\ (CombinedMode /\ pc = "report") =>
          shares = sort_shares(combine_shares(contributor_shares(t_log.val),
                                              contributor_shares(t_blame.val)))
    \* extractor calls in flight are for the current file, whose predecessors
    \* have all been reported
    /\ \A t \in {t_log, t_blame} :
          InFlight(t) => (idx >= 1 /\ t.file = file /\ n_reports = idx - 1)
    \* the two activations are all there is: none is in flight while the main
    \* thread is between files, or when its thread is started
    /\ pc \in {"loop", "estimate", "report", "done"} =>
          (~InFlight(t_log) /\ ~InFlight(t_blame))
    /\ pc = "start_t2" => ~InFlight(t_blame)

\* The step part of C10: the buffer changes only by a new empty buffer for the
\* next file, or by one extractor filling its own, still empty, slot.
C10_Writes ==
    buffer' # buffer =>
        \/ (pc = "loop" /\ buffer' = <<>>)
        \/ /\ t_log.pc = "store" /\ t_log'.pc = "done"
           /\ ~HasKey(buffer, "log")
           /\ buffer' = Append(buffer, <<"log", t_log.val>>)
        \/ /\ t_blame.pc = "store" /\ t_blame'.pc = "done"
           /\ ~HasKey(buffer, "blame")
           /\ buffer' = Append(buffer, <<"blame", t_blame.val>>)

\* C10: combined mode is a fork-join: each thread writes its own slot of the
\* buffer and writes it once, the main thread reads the buffer after both
\* threads have ended, the ranked list is the same for every interleaving, the
\* extractor calls in flight are at most two and for the current file, and
\* the extractors of a file start after the report of the file before it.
C10_ForkJoin == []C10_Inv /\ [][C10_Writes]_vars

\* Combined mode, second file: the blame thread stored its result before the
\* log thread did, the two signals differ, and the blend has been ranked.
C10_Witness ==
    /\ CombinedMode
    /\ idx = 2
    /\ pc = "report"
    /\ Len(buffer) = 2
    /\ buffer[1][1] = "blame"
    /\ t_log.val # t_blame.val
    /\ t_log.val # <<>> /\ t_blame.val # <<>>

====
